---- MODULE Spec2Model ----
(***************************************************************************)
(* Model of the bounded-concurrency request engine of ftb-tool             *)
(* (src/src/helpers/logging.ts, the `net` helper): the request queue, the  *)
(* in-flight list, the waiting queue and the pump that moves requests      *)
(* from the queue into flight; and of the `version download` command       *)
(* (src/src/commands/version/download.ts) that stages the files of a       *)
(* modpack version through that engine.                                    *)
(*                                                                         *)
(* JavaScript runs every handler to completion, so each action below is    *)
(* one synchronous handler: a call of an exported function, one callback   *)
(* of the promise chain built in pumpQueue, or one timer callback.         *)
(***************************************************************************)
EXTENDS Integers, Sequences, FiniteSets, TLC

\* ----- bounds of the model ------------------------------------------------
MaxReq == 4      \* number of makeRequest calls of a run
MaxWait == 2     \* number of waitUntilQueueHasSpace calls of a run
MaxLimit == 2    \* setRequestLimit is called with a value of 0..MaxLimit
MaxFiles == 2    \* number of files the manifest of a version lists
MaxRetries == 3  \* --perFileRetries is given a value of 0..MaxRetries
MaxLen == 2      \* length of the content of a file, in bytes
MaxLoggers == 3  \* number of Logger instances created in a run
MaxCalls == 2    \* number of getFlameFile calls of a run

\* ----- program constants --------------------------------------------------
DEFAULT_NET_REQUEST_LIMIT == 3
DEFAULT_NET_TIMEOUT == 10000

Requests == 1..MaxReq
Files == 1..MaxFiles
Loggers == 1..MaxLoggers
Calls == 1..MaxCalls
Waiters == 1..MaxWait
LimitValues == 0..MaxLimit

\* The `timeout` argument of waitUntilQueueHasSpace is a JavaScript number:
\* a finite value, Infinity (the default), -Infinity or NaN.
Num(n) == [kind |-> "finite", val |-> n]
Infinity == [kind |-> "inf", val |-> 1]
NegInfinity == [kind |-> "inf", val |-> -1]
NaN == [kind |-> "nan", val |-> 0]
NoTimeout == [kind |-> "none", val |-> 0]
\* The timeouts the callers of the gate pass: none (the default, Infinity)
\* or a positive number of milliseconds.
CallerTimeouts == {Num(1), Infinity}
\* Every kind of value the parameter can take.
TimeoutValues == {Num(-1), Num(0), Num(1), Infinity, NegInfinity, NaN}

VARIABLES
    requestLimit,      \* let requestLimit
    requestQueue,      \* const requestQueue: the requests not yet dispatched
    requestsInFlight,  \* const requestsInFlight: the dispatched requests
    waitingQueue,      \* const waitingQueue: the registered waiters
    uuid,              \* requestItem.uuid of each request, 0 = undefined
    nextUUID,          \* the number of createUUID() calls made so far
    pc,                \* where each request is in its life
    outcome,           \* how the dispatched operation of a request settled
    resolveCalls,      \* calls of requestItem.resolve, per request
    failCalls,         \* calls of requestItem.fail, per request
    dispatched,        \* the instance.request(...) calls, in order
    nReq,              \* makeRequest calls made so far
    nWait,             \* waitUntilQueueHasSpace calls made so far
    settled,           \* item.settled of each waiter
    timers,            \* waiters whose setTimeout callback has not run yet
    wTimeout,          \* the timeout a waiter was registered with
    waitOutcome,       \* state of the promise a waitUntilQueueHasSpace call returned
    wResolveCalls,     \* calls of the promise's resolve(), per waiter
    wRejectCalls,      \* calls of the promise's reject(), per waiter
    notified,          \* the waiter.resolve() calls made by pumpQueue, in order
    requestTimeout,    \* let requestTimeout, in milliseconds
    rTimeout           \* request.timeout of each request made, 0 = no timeout

\* The `version download` command: one run of command.handler.
VARIABLES
    args,              \* the command-line options of the run
    hpc,               \* where the handler is
    tpc,               \* where the download task of each manifest file is
    thrown,            \* the error the task of a file threw, "none" if none
    staging,           \* the file at <tempPath>/<file.path>/<file.name>
    final,             \* the file at <finalDestination>/<file.path>/<file.name>
    tempDir,           \* whether the directory args.tempPath exists
    reqOf,             \* the request made for a file (0 = the manifest), 0 = none
    is,                \* state of the response stream `is` of a file
    tries,             \* let tries, of the task of a file
    pipes,             \* is.pipe(os) calls made for a file
    unlinks,           \* staging files of a file removed after a failed attempt
    lateRequests,      \* files whose request was made after a task gave up
    stagedValid        \* files staged with the expected content before the run

dlVars == <<args, hpc, tpc, thrown, staging, final, tempDir, reqOf, is, tries,
            pipes, unlinks, lateRequests, stagedValid>>

\* The helpers of helpers/fs.ts and of the logging module.
VARIABLES
    ciFile,            \* what the path given to checkFileIntegrity holds
    ciHash,            \* the hash given to checkFileIntegrity
    ciResult,          \* what the call resolved to, "none" before the call
    defaultVerbose,    \* DEFAULT_VERBOSE_LOGGING
    verbose,           \* let verbose
    allLoggers,        \* const ALL_LOGGERS
    level,             \* logger.level of each Logger created, 0 = not created
    levelAtCreation,   \* the level the constructor gave each Logger
    nLoggers,          \* Logger instances created so far
    fpc,               \* where each getFlameFile call is
    metaReq,           \* the request a call made for the file's metadata, 0 = none
    fileReq            \* the request a call made for the file itself, 0 = none

ciVars == <<ciFile, ciHash, ciResult>>

logVars == <<defaultVerbose, verbose, allLoggers, level, levelAtCreation,
             nLoggers>>

flameVars == <<fpc, metaReq, fileReq>>

helperVars == <<ciVars, logVars, flameVars>>

\* The variables the request engine does not touch.
nonGateVars == <<dlVars, helperVars>>

vars == <<requestLimit, requestQueue, requestsInFlight, waitingQueue, uuid,
          nextUUID, pc, outcome, resolveCalls, failCalls, dispatched, nReq,
          nWait, settled, timers, wTimeout, waitOutcome, wResolveCalls,
          wRejectCalls, notified, requestTimeout, rTimeout, nonGateVars>>

\* The variables of the request engine but its timeout setting.
gateVars == <<requestLimit, requestQueue, requestsInFlight, waitingQueue,
              uuid, nextUUID, pc, outcome, resolveCalls, failCalls,
              dispatched, nReq, nWait, settled, timers, wTimeout,
              waitOutcome, wResolveCalls, wRejectCalls, notified>>

\* The timeout setting and the timeouts of the requests built from it.
timeoutVars == <<requestTimeout, rTimeout>>

Range(s) == {s[i] : i \in 1..Len(s)}

\* The part of the state pumpQueue and the waiter callbacks work on.
Gate == [requestLimit |-> requestLimit, requestQueue |-> requestQueue,
         requestsInFlight |-> requestsInFlight, waitingQueue |-> waitingQueue,
         uuid |-> uuid, nextUUID |-> nextUUID, pc |-> pc,
         dispatched |-> dispatched, settled |-> settled,
         waitOutcome |-> waitOutcome, wResolveCalls |-> wResolveCalls,
         wRejectCalls |-> wRejectCalls, notified |-> notified]

Commit(g) ==
    /\ requestLimit' = g.requestLimit
    /\ requestQueue' = g.requestQueue
    /\ requestsInFlight' = g.requestsInFlight
    /\ waitingQueue' = g.waitingQueue
    /\ uuid' = g.uuid
    /\ nextUUID' = g.nextUUID
    /\ pc' = g.pc
    /\ dispatched' = g.dispatched
    /\ settled' = g.settled
    /\ waitOutcome' = g.waitOutcome
    /\ wResolveCalls' = g.wResolveCalls
    /\ wRejectCalls' = g.wRejectCalls
    /\ notified' = g.notified

\* Mutant: the capacity counts one slot too many.
RemainingRequestCapacity_OffByOne(g) ==
    g.requestLimit - Len(g.requestsInFlight) + 1

\* requestLimit - requestsInFlight.length
RemainingRequestCapacity(g) == g.requestLimit - Len(g.requestsInFlight)

\* Mutant: item.resolve without the item.settled guard.
WaiterResolve_Unguarded(g, w) ==
    [g EXCEPT !.settled[w] = TRUE,
              !.wResolveCalls[w] = @ + 1,
              !.waitOutcome[w] = IF @ = "pending" THEN "resolved" ELSE @]

\* item.resolve of a waiter: guarded by item.settled
WaiterResolve(g, w) ==
    IF g.settled[w] THEN g
    ELSE [g EXCEPT !.settled[w] = TRUE,
                   !.wResolveCalls[w] = @ + 1,
                   !.waitOutcome[w] = IF @ = "pending" THEN "resolved" ELSE @]

\* item.fail of a waiter: guarded by item.settled
WaiterFail(g, w) ==
    IF g.settled[w] THEN g
    ELSE [g EXCEPT !.settled[w] = TRUE,
                   !.wRejectCalls[w] = @ + 1,
                   !.waitOutcome[w] = IF @ = "pending" THEN "rejected" ELSE @]

\* Mutant: the pump takes the newest request (pop) instead of the oldest.
Dispatch_FromTail(g) ==
    LET requestItem == g.requestQueue[Len(g.requestQueue)]
        requestUUID == g.nextUUID + 1
    IN [g EXCEPT !.requestQueue = SubSeq(@, 1, Len(@) - 1),
                 !.nextUUID = requestUUID,
                 !.uuid[requestItem] = requestUUID,
                 !.requestsInFlight = Append(@, requestItem),
                 !.pc[requestItem] = "inflight",
                 !.dispatched = Append(@, requestItem)]

\* Mutant: the pump reads the head of the queue and leaves it there.
Dispatch_KeepsQueued(g) ==
    LET requestItem == Head(g.requestQueue)
        requestUUID == g.nextUUID + 1
    IN [g EXCEPT !.nextUUID = requestUUID,
                 !.uuid[requestItem] = requestUUID,
                 !.requestsInFlight = Append(@, requestItem),
                 !.pc[requestItem] = "inflight",
                 !.dispatched = Append(@, requestItem)]

\* Body of the pump loop up to the dispatch: shift the head of the queue,
\* give it a fresh uuid, push it on the in-flight list, start the operation.
Dispatch(g) ==
    LET requestItem == Head(g.requestQueue)
        requestUUID == g.nextUUID + 1
    IN [g EXCEPT !.requestQueue = Tail(@),
                 !.nextUUID = requestUUID,
                 !.uuid[requestItem] = requestUUID,
                 !.requestsInFlight = Append(@, requestItem),
                 !.pc[requestItem] = "inflight",
                 !.dispatched = Append(@, requestItem)]

\* Mutant: the pump notifies the newest waiter (pop) instead of the oldest.
NotifyFront_FromTail(g) ==
    LET waiter == g.waitingQueue[Len(g.waitingQueue)]
    IN WaiterResolve([g EXCEPT !.waitingQueue = SubSeq(@, 1, Len(@) - 1),
                               !.notified = Append(@, waiter)], waiter)

\* Mutant: after a dispatch the pump notifies every waiter registered.
RECURSIVE NotifyFront_Everyone(_)
NotifyFront_Everyone(g) ==
    LET waiter == Head(g.waitingQueue)
        h == WaiterResolve([g EXCEPT !.waitingQueue = Tail(@),
                                     !.notified = Append(@, waiter)], waiter)
    IN IF Len(h.waitingQueue) = 0 THEN h ELSE NotifyFront_Everyone(h)

\* const waiter = waitingQueue.shift(); waiter.resolve();
NotifyFront(g) ==
    LET waiter == Head(g.waitingQueue)
    IN WaiterResolve([g EXCEPT !.waitingQueue = Tail(@),
                               !.notified = Append(@, waiter)], waiter)

RECURSIVE PumpLoop(_, _, _)
PumpLoop(i, remainingRequestCapacity, g) ==
    IF i < remainingRequestCapacity /\ i < Len(g.requestQueue)
    THEN LET d == Dispatch(g)
         IN IF Len(d.waitingQueue) = 0
            THEN d
            ELSE PumpLoop(i + 1, remainingRequestCapacity, NotifyFront(d))
    ELSE g

PumpQueue(g) ==
    IF RemainingRequestCapacity(g) <= 0
    THEN g
    ELSE PumpLoop(0, RemainingRequestCapacity(g), g)

\* makeRequest on the engine g: push the request on the queue, pump.
Enqueue(g, r) ==
    PumpQueue([g EXCEPT !.requestQueue = Append(@, r), !.pc[r] = "queued"])

\* requestsInFlight.findIndex((request) => request.uuid === requestUUID),
\* 1-based, 0 when there is none
FindIndex(g, requestUUID) ==
    LET hits == {i \in 1..Len(g.requestsInFlight) :
                    g.uuid[g.requestsInFlight[i]] = requestUUID}
    IN IF hits = {} THEN 0
       ELSE CHOOSE i \in hits : \A j \in hits : i <= j

Splice(s, i) == [j \in 1..(Len(s) - 1) |-> IF j < i THEN s[j] ELSE s[j + 1]]

\* Mutant: the finally callback drops the oldest in-flight request
\* (shift) instead of the one that settled.
RemoveInFlight_Shift(g, requestUUID) ==
    IF Len(g.requestsInFlight) >= 1
    THEN [g EXCEPT !.requestsInFlight = Tail(@)]
    ELSE g

\* The finally callback up to the pump: remove the request from the
\* in-flight list by its uuid.
RemoveInFlight(g, requestUUID) ==
    LET i == FindIndex(g, requestUUID)
    IN IF i >= 1
       THEN [g EXCEPT !.requestsInFlight = Splice(@, i)]
       ELSE g

\* Mutant: the isFinite test is missing, only timeout > 0 is tested.
ArmsTimer_NoFiniteCheck(timeout) ==
    timeout.kind \in {"finite", "inf"} /\ timeout.val > 0

\* isFinite(timeout) && timeout > 0
ArmsTimer(timeout) == timeout.kind = "finite" /\ timeout.val > 0

\* The request engine once the module is loaded and the limit is `limit`.
GateInit(limit) ==
    /\ requestLimit = limit
    /\ requestQueue = <<>>
    /\ requestsInFlight = <<>>
    /\ waitingQueue = <<>>
    /\ uuid = [r \in Requests |-> 0]
    /\ nextUUID = 0
    /\ pc = [r \in Requests |-> "unissued"]
    /\ outcome = [r \in Requests |-> "none"]
    /\ resolveCalls = [r \in Requests |-> 0]
    /\ failCalls = [r \in Requests |-> 0]
    /\ dispatched = <<>>
    /\ nReq = 0
    /\ nWait = 0
    /\ settled = [w \in Waiters |-> FALSE]
    /\ timers = {}
    /\ wTimeout = [w \in Waiters |-> NoTimeout]
    /\ waitOutcome = [w \in Waiters |-> "uncalled"]
    /\ wResolveCalls = [w \in Waiters |-> 0]
    /\ wRejectCalls = [w \in Waiters |-> 0]
    /\ notified = <<>>
    /\ requestTimeout = DEFAULT_NET_TIMEOUT
    /\ rTimeout = [r \in Requests |-> 0]

\* ----- files and digests ---------------------------------------------------
\* A path holds no file, or a file with a content of at most MaxLen bytes.
Bytes == {0, 1}
Contents == UNION {[1..n -> Bytes] : n \in 0..MaxLen}
NoFile == [exists |-> FALSE, content |-> <<>>]
File(content) == [exists |-> TRUE, content |-> content]
FileStates == {NoFile} \cup {File(c) : c \in Contents}

\* createHash(algo).update(content).digest('hex'): contents that differ have
\* digests that differ. The digest of the empty content is 1.
RECURSIVE Digest(_)
Digest(content) ==
    IF Len(content) = 0 THEN 1
    ELSE 2 * Digest(SubSeq(content, 1, Len(content) - 1))
         + content[Len(content)]

\* The content the upstream serves for a file of the manifest, a content
\* that differs from it, and file.sha1, the digest the manifest gives.
Served == <<1>>
Corrupt == <<0>>
Sha1 == Digest(Served)

\* The hashes a caller passes: the digest of a content, or a hash that is
\* the digest of none (0).
Hashes == {Digest(c) : c \in Contents} \cup {0}

\* checkFileIntegrity has not been called.
NoIntegrityCall ==
    /\ ciFile = NoFile
    /\ ciHash = 0
    /\ ciResult = "none"

\* getFlameFile has not been called.
NoFlameCall ==
    /\ fpc = [c \in Calls |-> "idle"]
    /\ metaReq = [c \in Calls |-> 0]
    /\ fileReq = [c \in Calls |-> 0]

\* enum LogLevel
LogLevel == [None |-> 0, Fatal |-> 1, Error |-> 2, Warning |-> 3, Info |-> 4,
             Verbose |-> 5, Debug |-> 6, Trace |-> 7]

\* value ? LogLevel.Verbose : LogLevel.Info
LevelFor(value) == IF value THEN LogLevel.Verbose ELSE LogLevel.Info

\* The logging module once it is loaded and n modules have created their
\* logger (const logger = new Logger(...)). DEFAULT_VERBOSE_LOGGING comes
\* from ../constants and is either value.
LoggingLoaded(n) ==
    /\ defaultVerbose \in BOOLEAN
    /\ verbose = defaultVerbose
    /\ allLoggers = [i \in 1..n |-> i]
    /\ level = [l \in Loggers |-> IF l <= n THEN LevelFor(defaultVerbose)
                                  ELSE LogLevel.None]
    /\ levelAtCreation = level
    /\ nLoggers = n

\* ALL_LOGGERS.forEach((logger) => (logger.level = level)) in setVerbose
SetLevels(value) ==
    [l \in Loggers |-> IF l \in Range(allLoggers) THEN LevelFor(value)
                       ELSE level[l]]

\* No command runs.
NoCommand ==
    /\ args = [perFileRetries |-> 0, cleanupTemp |-> TRUE,
               checkIntegrity |-> TRUE, maxConnections |-> 0, timeout |-> 0,
               osTemp |-> FALSE, verbose |-> FALSE]
    /\ hpc = "idle"
    /\ tpc = [f \in Files |-> "none"]
    /\ thrown = [f \in Files |-> "none"]
    /\ staging = [f \in Files |-> NoFile]
    /\ final = [f \in Files |-> NoFile]
    /\ tempDir = FALSE
    /\ reqOf = [f \in 0..MaxFiles |-> 0]
    /\ is = [f \in Files |-> "none"]
    /\ tries = [f \in Files |-> 0]
    /\ pipes = [f \in Files |-> 0]
    /\ unlinks = [f \in Files |-> 0]
    /\ lateRequests = {}
    /\ stagedValid = {}

\* The state once the modules are loaded and the limit is `limit`.
\* (The logging module plays no part in the runs of the request engine and
\* of the command: DEFAULT_VERBOSE_LOGGING is taken there as false, the
\* default of --verbose.)
InitWith(limit) ==
    /\ GateInit(limit)
    /\ NoCommand
    /\ NoIntegrityCall
    /\ LoggingLoaded(0)
    /\ NoFlameCall
    /\ defaultVerbose = FALSE

Init == InitWith(DEFAULT_NET_REQUEST_LIMIT)

\* Mutant: the request config carries no timeout.
BuildBaseRequestConfig_NoTimeout == [timeout |-> 0]

\* buildBaseRequestConfig: the config takes the timeout in force when it is
\* built.
BuildBaseRequestConfig == [timeout |-> requestTimeout]

\* getFTB, getFTBFile, getFlame: build the request config, then makeRequest
\* in the same synchronous run: push the request on the queue, pump.
MakeRequest ==
    /\ nReq < MaxReq
    /\ nReq' = nReq + 1
    /\ rTimeout' = [rTimeout EXCEPT ![nReq + 1] = BuildBaseRequestConfig.timeout]
    /\ UNCHANGED requestTimeout
    /\ Commit(PumpQueue([Gate EXCEPT !.requestQueue = Append(@, nReq + 1),
                                     !.pc[nReq + 1] = "queued"]))
    /\ UNCHANGED <<outcome, resolveCalls, failCalls, nWait, timers, wTimeout>>
    /\ UNCHANGED nonGateVars

\* Mutant: the failure callback is chained so that it runs on every
\* settlement, after the success callback too.
ThenCatch_FailAlways(r, result) ==
    /\ pc[r] = "inflight"
    /\ pc' = [pc EXCEPT ![r] = "called"]
    /\ outcome' = [outcome EXCEPT ![r] = result]
    /\ resolveCalls' = [resolveCalls EXCEPT
                           ![r] = IF result = "ok" THEN @ + 1 ELSE @]
    /\ failCalls' = [failCalls EXCEPT ![r] = @ + 1]
    /\ UNCHANGED <<requestLimit, requestQueue, requestsInFlight, waitingQueue,
                   uuid, nextUUID, dispatched, nReq, nWait, settled, timers,
                   wTimeout, waitOutcome, wResolveCalls, wRejectCalls,
                   notified>>
    /\ UNCHANGED timeoutVars
    /\ UNCHANGED nonGateVars

\* The promise of instance.request(...) settles, with a response of 2xx
\* status ("ok") or with a failure ("err": other status, network error,
\* timeout), and the callback registered for that case runs:
\* .then((response) => requestItem.resolve(response))
\* .catch((err) => requestItem.fail(err))
ThenCatch(r, result) ==
    /\ pc[r] = "inflight"
    /\ pc' = [pc EXCEPT ![r] = "called"]
    /\ outcome' = [outcome EXCEPT ![r] = result]
    /\ resolveCalls' = [resolveCalls EXCEPT
                           ![r] = IF result = "ok" THEN @ + 1 ELSE @]
    /\ failCalls' = [failCalls EXCEPT
                        ![r] = IF result = "err" THEN @ + 1 ELSE @]
    /\ UNCHANGED <<requestLimit, requestQueue, requestsInFlight, waitingQueue,
                   uuid, nextUUID, dispatched, nReq, nWait, settled, timers,
                   wTimeout, waitOutcome, wResolveCalls, wRejectCalls,
                   notified>>
    /\ UNCHANGED timeoutVars
    /\ UNCHANGED nonGateVars

\* Mutant: the finally callback removes the request and does not pump.
Finally_NoPump(r) ==
    /\ pc[r] = "called"
    /\ Commit(RemoveInFlight([Gate EXCEPT !.pc[r] = "released"], uuid[r]))
    /\ UNCHANGED <<outcome, resolveCalls, failCalls, nReq, nWait, timers,
                   wTimeout>>
    /\ UNCHANGED timeoutVars
    /\ UNCHANGED nonGateVars

\* Mutant: the finally callback of a request that failed puts the request
\* back on the queue before it pumps.
Finally_Retries(r) ==
    /\ pc[r] = "called"
    /\ LET removed == RemoveInFlight(Gate, uuid[r])
       IN IF outcome[r] = "ok"
          THEN Commit(PumpQueue([removed EXCEPT !.pc[r] = "released"]))
          ELSE Commit(PumpQueue([removed EXCEPT
                                    !.requestQueue = Append(@, r),
                                    !.pc[r] = "queued"]))
    /\ UNCHANGED <<outcome, resolveCalls, failCalls, nReq, nWait, timers,
                   wTimeout>>
    /\ UNCHANGED timeoutVars
    /\ UNCHANGED nonGateVars

\* .finally(() => { remove from requestsInFlight by uuid; pumpQueue(); })
Finally(r) ==
    /\ pc[r] = "called"
    /\ Commit(PumpQueue(RemoveInFlight([Gate EXCEPT !.pc[r] = "released"],
                                       uuid[r])))
    /\ UNCHANGED <<outcome, resolveCalls, failCalls, nReq, nWait, timers,
                   wTimeout>>
    /\ UNCHANGED timeoutVars
    /\ UNCHANGED nonGateVars

\* Mutant: setting the limit pumps the queue.
SetRequestLimit_Pumps(value) ==
    /\ Commit(PumpQueue([Gate EXCEPT !.requestLimit = value]))
    /\ UNCHANGED <<outcome, resolveCalls, failCalls, nReq, nWait, timers,
                   wTimeout>>
    /\ UNCHANGED timeoutVars
    /\ UNCHANGED nonGateVars

SetRequestLimit(value) ==
    /\ requestLimit' = value
    /\ UNCHANGED <<requestQueue, requestsInFlight, waitingQueue, uuid,
                   nextUUID, pc, outcome, resolveCalls, failCalls, dispatched,
                   nReq, nWait, settled, timers, wTimeout, waitOutcome,
                   wResolveCalls, wRejectCalls, notified>>
    /\ UNCHANGED timeoutVars
    /\ UNCHANGED nonGateVars

ResetRequestLimit ==
    /\ requestLimit' = DEFAULT_NET_REQUEST_LIMIT
    /\ UNCHANGED <<requestQueue, requestsInFlight, waitingQueue, uuid,
                   nextUUID, pc, outcome, resolveCalls, failCalls, dispatched,
                   nReq, nWait, settled, timers, wTimeout, waitOutcome,
                   wResolveCalls, wRejectCalls, notified>>
    /\ UNCHANGED timeoutVars
    /\ UNCHANGED nonGateVars

\* Mutant: the fast path pumps the queue before it returns.
WaitFastPath_Pumps(g, w, timeout) ==
    [gate |-> PumpQueue([g EXCEPT !.waitOutcome[w] = "resolved"]),
     timers |-> timers,
     wTimeout |-> wTimeout]

\* waitUntilQueueHasSpace, the return taken when there is capacity: the
\* async function returns, its promise is resolved.
WaitFastPath(g, w, timeout) ==
    [gate |-> [g EXCEPT !.waitOutcome[w] = "resolved"],
     timers |-> timers,
     wTimeout |-> wTimeout]

\* waitUntilQueueHasSpace, the promise executor: push the item, arm the
\* timer, pump.
WaitRegister(g, w, timeout) ==
    [gate |-> PumpQueue([g EXCEPT !.waitOutcome[w] = "pending",
                                  !.waitingQueue = Append(@, w)]),
     timers |-> IF ArmsTimer(timeout) THEN timers \cup {w} ELSE timers,
     wTimeout |-> [wTimeout EXCEPT ![w] = timeout]]

WaitUntilQueueHasSpace(timeout) ==
    /\ nWait < MaxWait
    /\ nWait' = nWait + 1
    /\ LET w == nWait + 1
           res == IF RemainingRequestCapacity(Gate) > 0
                  THEN WaitFastPath(Gate, w, timeout)
                  ELSE WaitRegister(Gate, w, timeout)
       IN /\ Commit(res.gate)
          /\ timers' = res.timers
          /\ wTimeout' = res.wTimeout
    /\ UNCHANGED <<outcome, resolveCalls, failCalls, nReq>>
    /\ UNCHANGED timeoutVars
    /\ UNCHANGED nonGateVars

\* The setTimeout callback of a waiter: item.fail(new Error(...))
TimerFires(w) ==
    /\ w \in timers
    /\ timers' = timers \ {w}
    /\ Commit(WaiterFail(Gate, w))
    /\ UNCHANGED <<outcome, resolveCalls, failCalls, nReq, nWait, wTimeout>>
    /\ UNCHANGED timeoutVars
    /\ UNCHANGED nonGateVars

\* setRequestTimeout
SetRequestTimeout(value) ==
    /\ requestTimeout' = value
    /\ UNCHANGED <<requestLimit, requestQueue, requestsInFlight, waitingQueue,
                   uuid, nextUUID, pc, outcome, resolveCalls, failCalls,
                   dispatched, nReq, nWait, settled, timers, wTimeout,
                   waitOutcome, wResolveCalls, wRejectCalls, notified,
                   rTimeout>>
    /\ UNCHANGED nonGateVars

\* The upstream does not answer within request.timeout milliseconds: the
\* promise of instance.request(...) is rejected with a timeout error and the
\* catch callback runs. A timeout of 0 means no timeout.
RequestTimesOut(r) ==
    /\ pc[r] = "inflight"
    /\ rTimeout[r] > 0
    /\ pc' = [pc EXCEPT ![r] = "called"]
    /\ outcome' = [outcome EXCEPT ![r] = "timeout"]
    /\ failCalls' = [failCalls EXCEPT ![r] = @ + 1]
    /\ UNCHANGED <<requestLimit, requestQueue, requestsInFlight, waitingQueue,
                   uuid, nextUUID, resolveCalls, dispatched, nReq, nWait,
                   settled, timers, wTimeout, waitOutcome, wResolveCalls,
                   wRejectCalls, notified>>
    /\ UNCHANGED timeoutVars
    /\ UNCHANGED nonGateVars

\* The gate without changes of the limit; waiters pass a timeout of T.
GateStep(T) ==
    \/ MakeRequest
    \/ \E r \in Requests, result \in {"ok", "err"} : ThenCatch(r, result)
    \/ \E r \in Requests : Finally(r)
    \/ \E timeout \in T : WaitUntilQueueHasSpace(timeout)
    \/ \E w \in Waiters : TimerFires(w)

\* The values setRequestTimeout is called with.
RequestTimeoutValues == {0, 1}

Next ==
    \/ GateStep(CallerTimeouts)
    \/ \E r \in Requests : RequestTimesOut(r)
    \/ \E value \in LimitValues : SetRequestLimit(value)
    \/ ResetRequestLimit
    \/ \E value \in RequestTimeoutValues : SetRequestTimeout(value)

Spec == Init /\ [][Next]_vars

\* The limit is configured once, before the first request (the commands call
\* setRequestLimit(args.maxConnections) before they make a request), and
\* stays as it is.
InitFixedLimit == \E limit \in LimitValues \cup {DEFAULT_NET_REQUEST_LIMIT} : InitWith(limit)

NextFixedLimit == GateStep(CallerTimeouts)

SpecFixedLimit == InitFixedLimit /\ [][NextFixedLimit]_vars

\* The limit is 1 at first and is raised to 3 at any moment.
InitLimitOne == InitWith(1)

NextLimitChange ==
    \/ GateStep(CallerTimeouts)
    \/ SetRequestLimit(DEFAULT_NET_REQUEST_LIMIT)

SpecLimitChange == InitLimitOne /\ [][NextLimitChange]_vars

\* The limit is 1, so that every call made while a request is in flight
\* registers a waiter; waiters are called with every kind of timeout value.
NextTimeouts == GateStep(TimeoutValues)

SpecTimeouts == InitLimitOne /\ [][NextTimeouts]_vars

\* The upstream never answers: a dispatched request settles only by its
\* timeout. The event loop runs every timer and every promise callback that
\* is due.
NextNeverResponds ==
    \/ MakeRequest
    \/ \E r \in Requests : RequestTimesOut(r)
    \/ \E r \in Requests : Finally(r)
    \/ \E value \in RequestTimeoutValues : SetRequestTimeout(value)

\* The timer of a request in flight fires, and a promise callback that is
\* due runs. The second conjunct is WF_vars(Finally(r)) written out:
\* Finally(r) is enabled exactly when pc[r] = "called", and it changes pc.
FairNeverResponds ==
    \A r \in Requests :
        /\ WF_vars(RequestTimesOut(r))
        /\ []<>(pc[r] # "called") \/ []<><<Finally(r)>>_vars

SpecNeverResponds ==
    InitFixedLimit /\ [][NextNeverResponds]_vars /\ FairNeverResponds

\* A dispatched request settles in any of the three ways: a 2xx response, a
\* failure (other status, network error), or its timeout.
NextFailures ==
    \/ MakeRequest
    \/ \E r \in Requests, result \in {"ok", "err"} : ThenCatch(r, result)
    \/ \E r \in Requests : RequestTimesOut(r)
    \/ \E r \in Requests : Finally(r)

SpecFailures == InitFixedLimit /\ [][NextFailures]_vars

\* The limit changes at any moment, every dispatched operation settles and
\* every promise callback that is due runs; the callers may stop calling.
\* (The last conjunct is WF_vars(Finally(r)) written out, as above.)
NextEventual ==
    \/ GateStep(CallerTimeouts)
    \/ \E value \in LimitValues : SetRequestLimit(value)

FairEventual ==
    \A r \in Requests :
        /\ WF_vars(\E result \in {"ok", "err"} : ThenCatch(r, result))
        /\ []<>(pc[r] # "called") \/ []<><<Finally(r)>>_vars

SpecEventual == InitFixedLimit /\ [][NextEventual]_vars /\ FairEventual

\* ----- getFlameFile ---------------------------------------------------------
\* getFlameFile(projectId, fileId), up to `await exported.getFlame(...)`:
\* getFlame builds the config of the metadata request and calls
\* makeFlameRequest, that is makeRequest.
GetFlameFile(c) ==
    /\ fpc[c] = "idle"
    /\ nReq < MaxReq
    /\ nReq' = nReq + 1
    /\ rTimeout' = [rTimeout EXCEPT ![nReq + 1] = BuildBaseRequestConfig.timeout]
    /\ UNCHANGED requestTimeout
    /\ Commit(Enqueue(Gate, nReq + 1))
    /\ metaReq' = [metaReq EXCEPT ![c] = nReq + 1]
    /\ fpc' = [fpc EXCEPT ![c] = "metadata"]
    /\ UNCHANGED <<outcome, resolveCalls, failCalls, nWait, timers, wTimeout>>
    /\ UNCHANGED <<fileReq, dlVars, ciVars, logVars>>

\* Mutant: the request of the file is made whether the metadata request
\* succeeded or not.
FlameMetadata_Regardless(c) ==
    /\ fpc[c] = "metadata"
    /\ outcome[metaReq[c]] # "none"
    /\ nReq < MaxReq
    /\ nReq' = nReq + 1
    /\ rTimeout' = [rTimeout EXCEPT ![nReq + 1] = BuildBaseRequestConfig.timeout]
    /\ Commit(Enqueue(Gate, nReq + 1))
    /\ fileReq' = [fileReq EXCEPT ![c] = nReq + 1]
    /\ fpc' = [fpc EXCEPT ![c] = "file"]
    /\ UNCHANGED <<outcome, resolveCalls, failCalls, nWait, timers, wTimeout,
                   requestTimeout>>
    /\ UNCHANGED <<metaReq, dlVars, ciVars, logVars>>

\* The await of getFlame resumes. A failure of the metadata request is
\* thrown out of getFlameFile; otherwise the config of the file request is
\* built from resp.data.downloadUrl and makeFlameFileRequest, that is
\* makeRequest, is called.
FlameMetadata(c) ==
    /\ fpc[c] = "metadata"
    /\ outcome[metaReq[c]] # "none"
    /\ IF outcome[metaReq[c]] = "ok"
       THEN /\ nReq < MaxReq
            /\ nReq' = nReq + 1
            /\ rTimeout' = [rTimeout EXCEPT
                               ![nReq + 1] = BuildBaseRequestConfig.timeout]
            /\ Commit(Enqueue(Gate, nReq + 1))
            /\ fileReq' = [fileReq EXCEPT ![c] = nReq + 1]
            /\ fpc' = [fpc EXCEPT ![c] = "file"]
       ELSE /\ fpc' = [fpc EXCEPT ![c] = "rejected"]
            /\ UNCHANGED <<requestLimit, requestQueue, requestsInFlight,
                           waitingQueue, uuid, nextUUID, pc, dispatched,
                           settled, waitOutcome, wResolveCalls, wRejectCalls,
                           notified, nReq, rTimeout, fileReq>>
    /\ UNCHANGED <<outcome, resolveCalls, failCalls, nWait, timers, wTimeout,
                   requestTimeout>>
    /\ UNCHANGED <<metaReq, dlVars, ciVars, logVars>>

\* The await of makeFlameFileRequest resumes: getFlameFile returns the
\* response stream, or throws the failure of the request.
FlameFile(c) ==
    /\ fpc[c] = "file"
    /\ outcome[fileReq[c]] # "none"
    /\ fpc' = [fpc EXCEPT ![c] = IF outcome[fileReq[c]] = "ok"
                                 THEN "resolved" ELSE "rejected"]
    /\ UNCHANGED <<gateVars, timeoutVars>>
    /\ UNCHANGED <<metaReq, fileReq, dlVars, ciVars, logVars>>

\* Calls of getFlameFile under a limit configured once.
NextFlame ==
    \/ \E c \in Calls : GetFlameFile(c)
    \/ \E c \in Calls : FlameMetadata(c)
    \/ \E c \in Calls : FlameFile(c)
    \/ \E r \in Requests, result \in {"ok", "err"} : ThenCatch(r, result)
    \/ \E r \in Requests : Finally(r)

SpecFlame == InitFixedLimit /\ [][NextFlame]_vars

\* ===========================================================================
\* The `version download` command (download.ts, the handler of lines 533-708)
\* ===========================================================================
\* Each action is one run of the handler or of the task of a file between
\* two awaits. Consecutive awaits on the file system are taken in one step:
\* the tasks work on paths of their own.

\* hasher.digest('hex') called in the statement after stream.pipe(hasher):
\* pipe only registers the hasher as a destination, the content is read and
\* written to the hasher in later turns of the event loop, so the digest is
\* the digest of the bytes written so far: none.
DigestAfterPipe(content) == Digest(<<>>)

\* isWritable(path): access(path, W_OK), which fails for a path that does
\* not exist.
IsWritable(file) == file.exists

\* The options --perFileRetries, --cleanupTemp, --checkIntegrity,
\* --maxConnections and --timeout a run is started with.
HandlerArgs ==
    [perFileRetries : 0..MaxRetries, cleanupTemp : BOOLEAN,
     checkIntegrity : BOOLEAN, maxConnections : 1..MaxLimit,
     timeout : {DEFAULT_NET_TIMEOUT}, osTemp : {FALSE}, verbose : BOOLEAN]

\* What the staging path of a file holds before the run.
StagedBefore == {NoFile, File(Served), File(Corrupt)}

\* Before the handler runs: the options are parsed, the directory
\* args.tempPath exists and holds what earlier runs left in it.
InitDownload ==
    /\ GateInit(DEFAULT_NET_REQUEST_LIMIT)
    /\ NoIntegrityCall
    /\ LoggingLoaded(1)
    /\ NoFlameCall
    /\ defaultVerbose = FALSE
    /\ args \in HandlerArgs
    /\ staging \in [Files -> StagedBefore]
    /\ stagedValid = {f \in Files : staging[f] = File(Served)}
    /\ tempDir = TRUE
    /\ hpc = "idle"
    /\ tpc = [f \in Files |-> "none"]
    /\ thrown = [f \in Files |-> "none"]
    /\ final = [f \in Files |-> NoFile]
    /\ reqOf = [f \in 0..MaxFiles |-> 0]
    /\ is = [f \in Files |-> "none"]
    /\ tries = [f \in Files |-> 0]
    /\ pipes = [f \in Files |-> 0]
    /\ unlinks = [f \in Files |-> 0]
    /\ lateRequests = {}

\* The task of some file has given up after its last try.
Aborting == \E f \in Files : thrown[f] = "aborting"

\* handler, up to `await getFTB(...)`: setVerbose(args.verbose),
\* setRequestTimeout(args.timeout), setRequestLimit(args.maxConnections),
\* then the request of the manifest.
HandlerStart ==
    /\ hpc = "idle"
    /\ nReq < MaxReq
    /\ nReq' = nReq + 1
    /\ requestTimeout' = args.timeout
    /\ rTimeout' = [rTimeout EXCEPT ![nReq + 1] = args.timeout]
    /\ Commit(Enqueue([Gate EXCEPT !.requestLimit = args.maxConnections],
                      nReq + 1))
    /\ reqOf' = [reqOf EXCEPT ![0] = nReq + 1]
    /\ hpc' = "manifest"
    /\ UNCHANGED <<outcome, resolveCalls, failCalls, nWait, timers, wTimeout>>
    /\ UNCHANGED <<args, tpc, thrown, staging, final, tempDir, is, tries,
                   pipes, unlinks, lateRequests, stagedValid>>
    /\ verbose' = args.verbose
    /\ level' = SetLevels(args.verbose)
    /\ UNCHANGED <<ciVars, flameVars, defaultVerbose, allLoggers,
                   levelAtCreation, nLoggers>>

\* The await of getFTB resumes. A failure leaves the handler: the call is
\* made before the try statement. Otherwise data.files.map starts the task
\* of every file: it returns for a file that is serveronly and awaits
\* isFile(fullPath) for the others.
HandlerManifest ==
    /\ hpc = "manifest"
    /\ outcome[reqOf[0]] # "none"
    /\ IF outcome[reqOf[0]] = "ok"
       THEN \E serveronly \in SUBSET Files :
               /\ tpc' = [f \in Files |-> IF f \in serveronly
                                          THEN "returned"
                                          ELSE "checkExisting"]
               /\ hpc' = "downloading"
       ELSE /\ hpc' = "rejected"
            /\ UNCHANGED tpc
    /\ UNCHANGED <<requestLimit, requestQueue, requestsInFlight, waitingQueue,
                   uuid, nextUUID, pc, outcome, resolveCalls, failCalls,
                   dispatched, nReq, nWait, settled, timers, wTimeout,
                   waitOutcome, wResolveCalls, wRejectCalls, notified>>
    /\ UNCHANGED timeoutVars
    /\ UNCHANGED <<args, thrown, staging, final, tempDir, reqOf, is, tries,
                   pipes, unlinks, lateRequests, stagedValid>>
    /\ UNCHANGED helperVars

\* The task of a file from `await isFile(fullPath)` to the request of the
\* file: a file found in the output directory is skipped when it passes the
\* integrity check or when the check is off, and removed otherwise; then
\* createWritableStream(outputPath) opens the staging file (it throws when
\* the path is not writable, and truncates the file otherwise) and
\* getFTBFile makes the request.
TaskCheckExisting(f) ==
    /\ tpc[f] = "checkExisting"
    /\ \E existing \in StagedBefore :
        LET skip == /\ existing.exists
                    /\ args.checkIntegrity
                           => DigestAfterPipe(existing.content) = Sha1
        IN IF skip
           THEN /\ tpc' = [tpc EXCEPT ![f] = "returned"]
                /\ UNCHANGED <<requestLimit, requestQueue, requestsInFlight,
                               waitingQueue, uuid, nextUUID, pc, dispatched,
                               settled, waitOutcome, wResolveCalls,
                               wRejectCalls, notified, nReq, rTimeout,
                               thrown, staging, reqOf, lateRequests>>
           ELSE IF IsWritable(staging[f]) /\ nReq < MaxReq
           THEN /\ staging' = [staging EXCEPT ![f] = File(<<>>)]
                /\ nReq' = nReq + 1
                /\ rTimeout' = [rTimeout EXCEPT
                                   ![nReq + 1] = BuildBaseRequestConfig.timeout]
                /\ Commit(Enqueue(Gate, nReq + 1))
                /\ reqOf' = [reqOf EXCEPT ![f] = nReq + 1]
                /\ lateRequests' = IF Aborting
                                   THEN lateRequests \cup {f}
                                   ELSE lateRequests
                /\ tpc' = [tpc EXCEPT ![f] = "requesting"]
                /\ UNCHANGED thrown
           ELSE /\ tpc' = [tpc EXCEPT ![f] = "failed"]
                /\ thrown' = [thrown EXCEPT ![f] = "not writable"]
                /\ UNCHANGED <<requestLimit, requestQueue, requestsInFlight,
                               waitingQueue, uuid, nextUUID, pc, dispatched,
                               settled, waitOutcome, wResolveCalls,
                               wRejectCalls, notified, nReq, rTimeout,
                               staging, reqOf, lateRequests>>
    /\ UNCHANGED <<outcome, resolveCalls, failCalls, nWait, timers, wTimeout,
                   requestTimeout>>
    /\ UNCHANGED <<args, hpc, final, tempDir, is, tries, pipes, unlinks,
                   stagedValid>>
    /\ UNCHANGED helperVars

\* The await of getFTBFile resumes: a 404 skips the file, another failure
\* is thrown on; with the response stream the first try starts:
\* let tries = args.perFileRetries; do { tries--; is.pipe(os) ...
TaskResponse(f) ==
    /\ tpc[f] = "requesting"
    /\ outcome[reqOf[f]] # "none"
    /\ IF outcome[reqOf[f]] = "ok"
       THEN /\ is' = [is EXCEPT ![f] = "open"]
            /\ tries' = [tries EXCEPT ![f] = args.perFileRetries - 1]
            /\ pipes' = [pipes EXCEPT ![f] = 1]
            /\ tpc' = [tpc EXCEPT ![f] = "piping"]
            /\ UNCHANGED thrown
       ELSE /\ \E notFound \in BOOLEAN :
                IF notFound
                THEN /\ tpc' = [tpc EXCEPT ![f] = "returned"]
                     /\ UNCHANGED thrown
                ELSE /\ tpc' = [tpc EXCEPT ![f] = "failed"]
                     /\ thrown' = [thrown EXCEPT ![f] = "request"]
            /\ UNCHANGED <<is, tries, pipes>>
    /\ UNCHANGED <<requestLimit, requestQueue, requestsInFlight, waitingQueue,
                   uuid, nextUUID, pc, outcome, resolveCalls, failCalls,
                   dispatched, nReq, nWait, settled, timers, wTimeout,
                   waitOutcome, wResolveCalls, wRejectCalls, notified>>
    /\ UNCHANGED timeoutVars
    /\ UNCHANGED <<args, hpc, staging, final, tempDir, reqOf, unlinks,
                   lateRequests, stagedValid>>
    /\ UNCHANGED helperVars

\* The stream emits 'end': the try succeeded, the loop is left and
\* isFile(outputPath) is checked. The content went to the staging file
\* unless the file has been removed in the meantime.
TaskPipeEnds(f) ==
    /\ tpc[f] = "piping"
    /\ is[f] = "open"
    /\ is' = [is EXCEPT ![f] = "ended"]
    /\ IF staging[f].exists
       THEN /\ staging' = [staging EXCEPT ![f] = File(Served)]
            /\ tpc' = [tpc EXCEPT ![f] = "done"]
            /\ UNCHANGED thrown
       ELSE /\ tpc' = [tpc EXCEPT ![f] = "failed"]
            /\ thrown' = [thrown EXCEPT ![f] = "aborting"]
            /\ UNCHANGED staging
    /\ UNCHANGED <<requestLimit, requestQueue, requestsInFlight, waitingQueue,
                   uuid, nextUUID, pc, outcome, resolveCalls, failCalls,
                   dispatched, nReq, nWait, settled, timers, wTimeout,
                   waitOutcome, wResolveCalls, wRejectCalls, notified>>
    /\ UNCHANGED timeoutVars
    /\ UNCHANGED <<args, hpc, final, tempDir, reqOf, tries, pipes, unlinks,
                   lateRequests, stagedValid>>
    /\ UNCHANGED helperVars

\* The stream emits 'error': the catch block unlinks the staging file
\* (unlink throws when the file is not there) and the loop goes on while
\* tries > 0, piping the same stream again; after the last try
\* isFile(outputPath) is false and the task throws "..., aborting". A
\* stream that has failed once emits 'error' again or nothing at all.
TaskPipeFails(f) ==
    /\ tpc[f] = "piping"
    /\ is[f] \in {"open", "errored"}
    /\ is' = [is EXCEPT ![f] = "errored"]
    /\ IF ~staging[f].exists
       THEN /\ tpc' = [tpc EXCEPT ![f] = "failed"]
            /\ thrown' = [thrown EXCEPT ![f] = "ENOENT"]
            /\ UNCHANGED <<staging, unlinks, tries, pipes>>
       ELSE /\ staging' = [staging EXCEPT ![f] = NoFile]
            /\ unlinks' = [unlinks EXCEPT ![f] = @ + 1]
            /\ IF tries[f] > 0
               THEN /\ tries' = [tries EXCEPT ![f] = @ - 1]
                    /\ pipes' = [pipes EXCEPT ![f] = @ + 1]
                    /\ UNCHANGED <<tpc, thrown>>
               ELSE /\ tpc' = [tpc EXCEPT ![f] = "failed"]
                    /\ thrown' = [thrown EXCEPT ![f] = "aborting"]
                    /\ UNCHANGED <<tries, pipes>>
    /\ UNCHANGED <<requestLimit, requestQueue, requestsInFlight, waitingQueue,
                   uuid, nextUUID, pc, outcome, resolveCalls, failCalls,
                   dispatched, nReq, nWait, settled, timers, wTimeout,
                   waitOutcome, wResolveCalls, wRejectCalls, notified>>
    /\ UNCHANGED timeoutVars
    /\ UNCHANGED <<args, hpc, final, tempDir, reqOf, lateRequests,
                   stagedValid>>
    /\ UNCHANGED helperVars

\* The finally block of the handler: rm(args.tempPath, {recursive: true})
\* when args.cleanupTemp is set.
CleanupTemp(files) ==
    IF args.cleanupTemp
    THEN [tempDir |-> FALSE, staging |-> [f \in Files |-> NoFile]]
    ELSE [tempDir |-> tempDir, staging |-> files]

\* Promise.all(downloads) rejects with the error of the first task that
\* failed; the tasks of the other files go on. The finally block runs and
\* the handler rejects.
HandlerBatchRejects ==
    /\ hpc = "downloading"
    /\ \E f \in Files : tpc[f] = "failed"
    /\ tempDir' = CleanupTemp(staging).tempDir
    /\ staging' = CleanupTemp(staging).staging
    /\ hpc' = "rejected"
    /\ UNCHANGED <<requestLimit, requestQueue, requestsInFlight, waitingQueue,
                   uuid, nextUUID, pc, outcome, resolveCalls, failCalls,
                   dispatched, nReq, nWait, settled, timers, wTimeout,
                   waitOutcome, wResolveCalls, wRejectCalls, notified>>
    /\ UNCHANGED timeoutVars
    /\ UNCHANGED <<args, tpc, thrown, final, reqOf, is, tries, pipes,
                   unlinks, lateRequests, stagedValid>>
    /\ UNCHANGED helperVars

\* Mutant: the copy to the final destination starts as soon as the task of
\* one file has returned.
HandlerBatchResolves_Eager ==
    /\ hpc = "downloading"
    /\ \E f \in Files : tpc[f] \in {"returned", "done"}
    /\ final' = [f \in Files |-> IF staging[f].exists THEN staging[f]
                                 ELSE final[f]]
    /\ hpc' = IF \A f \in Files : staging[f].exists THEN "resolved"
              ELSE "rejected"
    /\ tempDir' = CleanupTemp(staging).tempDir
    /\ staging' = CleanupTemp(staging).staging
    /\ UNCHANGED <<requestLimit, requestQueue, requestsInFlight, waitingQueue,
                   uuid, nextUUID, pc, outcome, resolveCalls, failCalls,
                   dispatched, nReq, nWait, settled, timers, wTimeout,
                   waitOutcome, wResolveCalls, wRejectCalls, notified>>
    /\ UNCHANGED timeoutVars
    /\ UNCHANGED <<args, tpc, thrown, reqOf, is, tries, pipes, unlinks,
                   lateRequests, stagedValid>>
    /\ UNCHANGED helperVars

\* Promise.all(downloads) resolves once every task has returned: the
\* staging file of every file of the manifest is copied to the final
\* destination (copyFile rejects for a file that is not staged), then the
\* finally block runs.
HandlerBatchResolves ==
    /\ hpc = "downloading"
    /\ \A f \in Files : tpc[f] \in {"returned", "done"}
    /\ final' = [f \in Files |-> IF staging[f].exists THEN staging[f]
                                 ELSE final[f]]
    /\ hpc' = IF \A f \in Files : staging[f].exists THEN "resolved"
              ELSE "rejected"
    /\ tempDir' = CleanupTemp(staging).tempDir
    /\ staging' = CleanupTemp(staging).staging
    /\ UNCHANGED <<requestLimit, requestQueue, requestsInFlight, waitingQueue,
                   uuid, nextUUID, pc, outcome, resolveCalls, failCalls,
                   dispatched, nReq, nWait, settled, timers, wTimeout,
                   waitOutcome, wResolveCalls, wRejectCalls, notified>>
    /\ UNCHANGED timeoutVars
    /\ UNCHANGED <<args, tpc, thrown, reqOf, is, tries, pipes, unlinks,
                   lateRequests, stagedValid>>
    /\ UNCHANGED helperVars

NextDownload ==
    \/ HandlerStart
    \/ HandlerManifest
    \/ \E f \in Files : TaskCheckExisting(f)
    \/ \E f \in Files : TaskResponse(f)
    \/ \E f \in Files : TaskPipeEnds(f)
    \/ \E f \in Files : TaskPipeFails(f)
    \/ HandlerBatchRejects
    \/ HandlerBatchResolves
    \/ \E r \in Requests, result \in {"ok", "err"} : ThenCatch(r, result)
    \/ \E r \in Requests : Finally(r)

SpecDownload == InitDownload /\ [][NextDownload]_vars

\* A run with --verbose and --checkIntegrity left at their defaults, one
\* retry per file and as many connections as the limit allows.
InitBatch ==
    /\ InitDownload
    /\ args.verbose = FALSE
    /\ args.checkIntegrity = TRUE
    /\ args.perFileRetries = 1
    /\ args.maxConnections = MaxLimit

SpecBatch == InitBatch /\ [][NextDownload]_vars

\* ===========================================================================
\* The `version download` command (download.ts, the handler of lines 294-319
\* with shouldDownloadFile and process)
\* ===========================================================================

\* isFile(path)
IsFile(file) == file.exists

\* checkFileIntegrity(path, hash) of helpers/fs.ts: false when the path is
\* not a file; otherwise is.pipe(digester) and, in the next statement,
\* digester.digest('hex') compared with hash.
CheckFileIntegrity(file, hash) ==
    IF ~IsFile(file) THEN FALSE
    ELSE DigestAfterPipe(file.content) = hash

\* shouldDownloadFile(args, file), for the file at the staging path
ShouldDownloadFile(file) ==
    IF IsFile(file) /\ args.checkIntegrity
    THEN ~CheckFileIntegrity(file, Sha1)
    ELSE ~IsFile(file)

\* The options of a run: --tempPath is given, or left at '' (osTemp), in
\* which case the handler creates a directory of its own. This handler does
\* not read perFileRetries.
ProcessArgs ==
    [perFileRetries : {MaxRetries}, cleanupTemp : BOOLEAN,
     checkIntegrity : BOOLEAN, maxConnections : 1..MaxLimit,
     timeout : {DEFAULT_NET_TIMEOUT}, osTemp : BOOLEAN, verbose : BOOLEAN]

InitProcess ==
    /\ GateInit(DEFAULT_NET_REQUEST_LIMIT)
    /\ NoIntegrityCall
    /\ LoggingLoaded(1)
    /\ NoFlameCall
    /\ defaultVerbose = FALSE
    /\ args \in ProcessArgs
    /\ staging \in [Files -> StagedBefore]
    /\ args.osTemp => staging = [f \in Files |-> NoFile]
    /\ stagedValid = {f \in Files : staging[f] = File(Served)}
    /\ tempDir = ~args.osTemp
    /\ hpc = "idle"
    /\ tpc = [f \in Files |-> "none"]
    /\ thrown = [f \in Files |-> "none"]
    /\ final = [f \in Files |-> NoFile]
    /\ reqOf = [f \in 0..MaxFiles |-> 0]
    /\ is = [f \in Files |-> "none"]
    /\ tries = [f \in Files |-> 0]
    /\ pipes = [f \in Files |-> 0]
    /\ unlinks = [f \in Files |-> 0]
    /\ lateRequests = {}

\* handler, up to `await getFTB(...)` in process: setVerbose,
\* setRequestTimeout, setRequestLimit, createOSTempDirectory when args.tempPath is '', then
\* process makes the request of the manifest.
ProcessStart ==
    /\ hpc = "idle"
    /\ nReq < MaxReq
    /\ nReq' = nReq + 1
    /\ requestTimeout' = args.timeout
    /\ rTimeout' = [rTimeout EXCEPT ![nReq + 1] = args.timeout]
    /\ Commit(Enqueue([Gate EXCEPT !.requestLimit = args.maxConnections],
                      nReq + 1))
    /\ reqOf' = [reqOf EXCEPT ![0] = nReq + 1]
    /\ tempDir' = TRUE
    /\ hpc' = "manifest"
    /\ UNCHANGED <<outcome, resolveCalls, failCalls, nWait, timers, wTimeout>>
    /\ UNCHANGED <<args, tpc, thrown, staging, final, is, tries, pipes,
                   unlinks, lateRequests, stagedValid>>
    /\ verbose' = args.verbose
    /\ level' = SetLevels(args.verbose)
    /\ UNCHANGED <<ciVars, flameVars, defaultVerbose, allLoggers,
                   levelAtCreation, nLoggers>>

\* The finally block of the handler: removeDirectory(args.tempPath) when
\* args.cleanupTemp is set.
RemoveDirectory(files) ==
    IF args.cleanupTemp /\ tempDir
    THEN [tempDir |-> FALSE, staging |-> [f \in Files |-> NoFile]]
    ELSE [tempDir |-> tempDir, staging |-> files]

\* The await of getFTB resumes in process. A failure goes through the
\* finally block of the handler. Otherwise the files that are not
\* serveronly are filtered with shouldDownloadFile and the task of every
\* file to download starts and awaits isFile(tempOutputPath).
ProcessManifest ==
    /\ hpc = "manifest"
    /\ outcome[reqOf[0]] # "none"
    /\ IF outcome[reqOf[0]] = "ok"
       THEN /\ \E serveronly \in SUBSET Files :
                tpc' = [f \in Files |->
                           IF f \in serveronly THEN "returned"
                           ELSE IF ShouldDownloadFile(staging[f])
                           THEN "download"
                           ELSE "skipped"]
            /\ hpc' = "downloading"
            /\ UNCHANGED <<tempDir, staging>>
       ELSE /\ hpc' = "rejected"
            /\ tempDir' = RemoveDirectory(staging).tempDir
            /\ staging' = RemoveDirectory(staging).staging
            /\ UNCHANGED tpc
    /\ UNCHANGED <<requestLimit, requestQueue, requestsInFlight, waitingQueue,
                   uuid, nextUUID, pc, outcome, resolveCalls, failCalls,
                   dispatched, nReq, nWait, settled, timers, wTimeout,
                   waitOutcome, wResolveCalls, wRejectCalls, notified>>
    /\ UNCHANGED timeoutVars
    /\ UNCHANGED <<args, thrown, final, reqOf, is, tries, pipes, unlinks,
                   lateRequests, stagedValid>>
    /\ UNCHANGED helperVars

\* The task of a file to download: removeFile(tempOutputPath) when it is a
\* file, then createWritableStream(tempOutputPath), which throws when the
\* path is not writable, then the request of the file. After the removal
\* the path never exists, so the task always throws here and the steps
\* after the request are never reached.
ProcessDownload(f) ==
    /\ tpc[f] = "download"
    /\ LET removed == NoFile
       IN IF IsWritable(removed) /\ nReq < MaxReq
          THEN /\ staging' = [staging EXCEPT ![f] = File(<<>>)]
               /\ nReq' = nReq + 1
               /\ rTimeout' = [rTimeout EXCEPT
                                  ![nReq + 1] = BuildBaseRequestConfig.timeout]
               /\ Commit(Enqueue(Gate, nReq + 1))
               /\ reqOf' = [reqOf EXCEPT ![f] = nReq + 1]
               /\ tpc' = [tpc EXCEPT ![f] = "requesting"]
               /\ UNCHANGED thrown
          ELSE /\ staging' = [staging EXCEPT ![f] = removed]
               /\ tpc' = [tpc EXCEPT ![f] = "failed"]
               /\ thrown' = [thrown EXCEPT ![f] = "not writable"]
               /\ UNCHANGED <<requestLimit, requestQueue, requestsInFlight,
                              waitingQueue, uuid, nextUUID, pc, dispatched,
                              settled, waitOutcome, wResolveCalls,
                              wRejectCalls, notified, nReq, rTimeout, reqOf>>
    /\ UNCHANGED <<outcome, resolveCalls, failCalls, nWait, timers, wTimeout,
                   requestTimeout>>
    /\ UNCHANGED <<args, hpc, final, tempDir, is, tries, pipes, unlinks,
                   lateRequests, stagedValid>>
    /\ UNCHANGED helperVars

\* Promise.all(downloads) rejects: process rejects, the finally block of
\* the handler runs.
ProcessRejects ==
    /\ hpc = "downloading"
    /\ \E f \in Files : tpc[f] = "failed"
    /\ tempDir' = RemoveDirectory(staging).tempDir
    /\ staging' = RemoveDirectory(staging).staging
    /\ hpc' = "rejected"
    /\ UNCHANGED <<requestLimit, requestQueue, requestsInFlight, waitingQueue,
                   uuid, nextUUID, pc, outcome, resolveCalls, failCalls,
                   dispatched, nReq, nWait, settled, timers, wTimeout,
                   waitOutcome, wResolveCalls, wRejectCalls, notified>>
    /\ UNCHANGED timeoutVars
    /\ UNCHANGED <<args, tpc, thrown, final, reqOf, is, tries, pipes,
                   unlinks, lateRequests, stagedValid>>
    /\ UNCHANGED helperVars

\* Promise.all(downloads) resolves: copyDirectory(tempPath,
\* finalDestination), which throws when the destination exists, then the
\* finally block of the handler.
ProcessResolves ==
    /\ hpc = "downloading"
    /\ \A f \in Files : tpc[f] \in {"returned", "skipped"}
    /\ \E destinationExists \in BOOLEAN :
        IF destinationExists
        THEN hpc' = "rejected" /\ UNCHANGED final
        ELSE hpc' = "resolved" /\ final' = staging
    /\ tempDir' = RemoveDirectory(staging).tempDir
    /\ staging' = RemoveDirectory(staging).staging
    /\ UNCHANGED <<requestLimit, requestQueue, requestsInFlight, waitingQueue,
                   uuid, nextUUID, pc, outcome, resolveCalls, failCalls,
                   dispatched, nReq, nWait, settled, timers, wTimeout,
                   waitOutcome, wResolveCalls, wRejectCalls, notified>>
    /\ UNCHANGED timeoutVars
    /\ UNCHANGED <<args, tpc, thrown, reqOf, is, tries, pipes, unlinks,
                   lateRequests, stagedValid>>
    /\ UNCHANGED helperVars

NextProcess ==
    \/ ProcessStart
    \/ ProcessManifest
    \/ \E f \in Files : ProcessDownload(f)
    \/ ProcessRejects
    \/ ProcessResolves
    \/ \E r \in Requests, result \in {"ok", "err"} : ThenCatch(r, result)
    \/ \E r \in Requests : Finally(r)

SpecProcess == InitProcess /\ [][NextProcess]_vars

\* ===========================================================================
\* checkFileIntegrity (helpers/fs.ts)
\* ===========================================================================

\* A call of checkFileIntegrity(path, hash) on a path that holds ciFile.
InitIntegrity ==
    /\ GateInit(DEFAULT_NET_REQUEST_LIMIT)
    /\ NoCommand
    /\ LoggingLoaded(0)
    /\ NoFlameCall
    /\ defaultVerbose = FALSE
    /\ ciFile \in FileStates
    /\ ciHash \in Hashes
    /\ ciResult = "none"

CheckFileIntegrityCall ==
    /\ ciResult = "none"
    /\ ciResult' = IF CheckFileIntegrity(ciFile, ciHash) THEN "true"
                   ELSE "false"
    /\ UNCHANGED <<ciFile, ciHash, logVars, dlVars, flameVars>>
    /\ UNCHANGED <<requestLimit, requestQueue, requestsInFlight, waitingQueue,
                   uuid, nextUUID, pc, outcome, resolveCalls, failCalls,
                   dispatched, nReq, nWait, settled, timers, wTimeout,
                   waitOutcome, wResolveCalls, wRejectCalls, notified>>
    /\ UNCHANGED timeoutVars

NextIntegrity == CheckFileIntegrityCall

SpecIntegrity == InitIntegrity /\ [][NextIntegrity]_vars

\* ===========================================================================
\* The logging module (helpers/logging.ts, lines 104-462)
\* ===========================================================================

InitLogging ==
    /\ GateInit(DEFAULT_NET_REQUEST_LIMIT)
    /\ NoCommand
    /\ NoIntegrityCall
    /\ LoggingLoaded(0)
    /\ NoFlameCall

\* setVerbose(value)
SetVerbose(value) ==
    /\ verbose' = value
    /\ level' = SetLevels(value)
    /\ UNCHANGED <<defaultVerbose, allLoggers, levelAtCreation, nLoggers>>
    /\ UNCHANGED <<gateVars, timeoutVars, dlVars, ciVars, flameVars>>

\* resetVerbose(): setVerbose(DEFAULT_VERBOSE_LOGGING)
ResetVerbose == SetVerbose(defaultVerbose)

\* Mutant: the constructor gives every logger the level Info.
NewLogger_AlwaysInfo ==
    /\ nLoggers < MaxLoggers
    /\ nLoggers' = nLoggers + 1
    /\ level' = [level EXCEPT ![nLoggers + 1] = LogLevel.Info]
    /\ levelAtCreation' = [levelAtCreation EXCEPT
                              ![nLoggers + 1] = LogLevel.Info]
    /\ allLoggers' = Append(allLoggers, nLoggers + 1)
    /\ UNCHANGED <<defaultVerbose, verbose>>
    /\ UNCHANGED <<gateVars, timeoutVars, dlVars, ciVars, flameVars>>

\* new Logger(name): the level follows the verbose flag, the logger is
\* pushed on ALL_LOGGERS.
NewLogger ==
    /\ nLoggers < MaxLoggers
    /\ nLoggers' = nLoggers + 1
    /\ level' = [level EXCEPT ![nLoggers + 1] = LevelFor(verbose)]
    /\ levelAtCreation' = [levelAtCreation EXCEPT
                              ![nLoggers + 1] = LevelFor(verbose)]
    /\ allLoggers' = Append(allLoggers, nLoggers + 1)
    /\ UNCHANGED <<defaultVerbose, verbose>>
    /\ UNCHANGED <<gateVars, timeoutVars, dlVars, ciVars, flameVars>>

\* clearAllLoggers(): ALL_LOGGERS.length = 0
ClearAllLoggers ==
    /\ allLoggers' = <<>>
    /\ UNCHANGED <<defaultVerbose, verbose, level, levelAtCreation, nLoggers>>
    /\ UNCHANGED <<gateVars, timeoutVars, dlVars, ciVars, flameVars>>

NextLogging ==
    \/ \E value \in BOOLEAN : SetVerbose(value)
    \/ ResetVerbose
    \/ NewLogger
    \/ ClearAllLoggers

SpecLogging == InitLogging /\ [][NextLogging]_vars

\* ===========================================================================
\* Properties
\* ===========================================================================

Released(r) == pc[r] = "released"
Registered(w) == wTimeout[w] # NoTimeout

\* C1 - Capacity bound: under a configured limit, whatever the sequence of
\* makeRequest calls, settlements and waiter calls, the in-flight list never
\* holds more requests than the limit.
C1_CapacityBound == Len(requestsInFlight) <= requestLimit

\* The gate is full, more requests wait in the queue, one has been released.
C1_Witness ==
    /\ requestLimit >= 2
    /\ Len(requestsInFlight) = requestLimit
    /\ Len(requestQueue) > 0
    /\ \E r \in Requests : Released(r)

\* C2 - Settlement exactly once: of a request's resolve and fail callbacks
\* exactly one is called, once, and not before the dispatched operation has
\* settled: resolve after a success, fail after a failure, none before.
C2_SettledExactlyOnce ==
    \A r \in Requests :
        /\ resolveCalls[r] + failCalls[r] <= 1
        /\ pc[r] \in {"unissued", "queued", "inflight"}
              => outcome[r] = "none" /\ resolveCalls[r] + failCalls[r] = 0
        /\ pc[r] \in {"called", "released"}
              => /\ outcome[r] \in {"ok", "err"}
                 /\ resolveCalls[r] = (IF outcome[r] = "ok" THEN 1 ELSE 0)
                 /\ failCalls[r] = (IF outcome[r] = "err" THEN 1 ELSE 0)

\* One request resolved and one failed, both released by pumps that ran
\* while other requests and waiters were around.
C2_Witness ==
    \E r1, r2 \in Requests :
        /\ Released(r1) /\ resolveCalls[r1] = 1
        /\ Released(r2) /\ failCalls[r2] = 1
        /\ Len(notified) > 0

\* C3 - FIFO admission: the operations are started in the order of the
\* makeRequest calls (request k is the k-th call), whatever the limit and
\* the order of the settlements.
C3_FifoAdmission == \A i \in 1..Len(dispatched) : dispatched[i] = i

\* limit = 1 and A, B, C were enqueued while A was in flight, A failed.
C3_Witness ==
    /\ requestLimit = 1
    /\ Len(dispatched) >= 3
    /\ outcome[1] = "err"

\* C4 - Waiter wake order: the pump notifies the waiters in the order they
\* registered (waiter k is the k-th waitUntilQueueHasSpace call).
C4_WakeOrder ==
    \A i, j \in 1..Len(notified) : i < j => notified[i] < notified[j]

\* limit = 1, two waiters registered and both were resolved by the pump.
C4_Witness ==
    /\ requestLimit = 1
    /\ Len(notified) >= 2
    /\ wResolveCalls[notified[1]] = 1
    /\ wResolveCalls[notified[2]] = 1

\* The finally callback of request r runs in this step.
FinallyStep(r) == pc[r] = "called" /\ pc'[r] = "released"

\* C5 - Freed slot wakes a waiter: whenever the finally callback of a request
\* frees a slot while an unsettled waiter is registered, the pump that
\* follows shifts the front waiter off the waiting queue and notifies it,
\* whether or not the request queue holds a request.
C5_FreedSlotWakesWaiter ==
    [][\A r \in Requests :
          (FinallyStep(r) /\ \E w \in Range(waitingQueue) : ~settled[w])
              => /\ waitingQueue' = Tail(waitingQueue)
                 /\ notified' = Append(notified, Head(waitingQueue))]_vars

\* C6 - Fast path of waitUntilQueueHasSpace: a call made while limit minus
\* in-flight count is greater than 0 resolves its promise and registers no
\* waiter, arms no timer and does not pump: it changes nothing else.
C6_FastPath ==
    [][(nWait' = nWait + 1 /\ requestLimit - Len(requestsInFlight) > 0)
          => /\ waitOutcome' = [waitOutcome EXCEPT ![nWait + 1] = "resolved"]
             /\ UNCHANGED <<requestLimit, requestQueue, requestsInFlight,
                            waitingQueue, uuid, nextUUID, pc, outcome,
                            resolveCalls, failCalls, dispatched, nReq, settled,
                            timers, wTimeout, wResolveCalls, wRejectCalls,
                            notified>>]_vars

\* A call returned on the fast path while a request sat in the queue and a
\* slot was free, so that a pump would have dispatched it.
C6_Witness ==
    \E w \in Waiters :
        /\ waitOutcome[w] = "resolved"
        /\ ~Registered(w)
        /\ Len(requestQueue) > 0
        /\ requestLimit - Len(requestsInFlight) > 0

\* C7 - A waiter settles at most once: the promise's resolve and reject are
\* called at most once together, whichever of the pump's notification and
\* the timer comes first decides, and the later one changes nothing.
C7_SettledOnce ==
    \A w \in Waiters :
        /\ wResolveCalls[w] + wRejectCalls[w] <= 1
        /\ waitOutcome[w] = "rejected" => wRejectCalls[w] = 1
        /\ (waitOutcome[w] = "resolved" /\ Registered(w)) => wResolveCalls[w] = 1
        /\ waitOutcome[w] \in {"resolved", "rejected"} => settled[w] \/ ~Registered(w)

C7_FirstDecides ==
    \A w \in Waiters :
        waitOutcome[w] \in {"resolved", "rejected"}
            => /\ waitOutcome'[w] = waitOutcome[w]
               /\ wResolveCalls'[w] = wResolveCalls[w]
               /\ wRejectCalls'[w] = wRejectCalls[w]

C7_WaiterSettlesAtMostOnce == []C7_SettledOnce /\ [][C7_FirstDecides]_vars

\* The timer of a waiter fired first, the pump notified it afterwards.
C7_Witness ==
    \E w \in Waiters :
        /\ waitOutcome[w] = "rejected"
        /\ w \in Range(notified)

\* C8 - Waiter timeout: a waiter registered with a positive finite timeout
\* has a timer, and when the timer fires before the waiter is notified the
\* waiter is rejected and marked settled; a waiter registered with a
\* negative, zero or non-finite timeout has no timer, is never rejected and
\* stays pending until the pump notifies it.
C8_NoTimerWithoutDeadline ==
    \A w \in Waiters :
        wTimeout[w] \in {Num(-1), Num(0), Infinity, NegInfinity, NaN}
            => /\ w \notin timers
               /\ wRejectCalls[w] = 0
               /\ waitOutcome[w] = "pending" \/ w \in Range(notified)
               /\ waitOutcome[w] = "resolved" <=> w \in Range(notified)

C8_TimerRejects ==
    \A w \in Waiters :
        /\ (~Registered(w) /\ wTimeout'[w] = Num(1)) => w \in timers'
        /\ (w \in timers /\ w \notin timers' /\ ~settled[w])
              => /\ waitOutcome'[w] = "rejected"
                 /\ wRejectCalls'[w] = 1
                 /\ settled'[w]

C8_WaiterTimeout == []C8_NoTimerWithoutDeadline /\ [][C8_TimerRejects]_vars

\* One waiter was rejected by its timer while a waiter registered before it
\* with timeout NaN is still pending.
C8_Witness ==
    /\ wTimeout[1] = NaN /\ waitOutcome[1] = "pending"
    /\ wTimeout[2] = Num(1) /\ waitOutcome[2] = "rejected" /\ settled[2]

\* C9 - Slot release on any outcome: the finally callback of a request, run
\* after a success as after a failure, removes that request and no other
\* from the in-flight list and pumps (a queued request is dispatched when
\* the limit allows); a released request is not in the in-flight list.
C9_ReleasedNotInFlight ==
    \A r \in Requests :
        /\ Released(r) => r \notin Range(requestsInFlight)
        /\ pc[r] \in {"inflight", "called"} <=> r \in Range(requestsInFlight)

C9_FinallyReleases ==
    \A r \in Requests :
        FinallyStep(r)
            => /\ r \notin Range(requestsInFlight')
               /\ Range(requestsInFlight) \ {r} \subseteq Range(requestsInFlight')
               /\ (Len(requestQueue) > 0
                      /\ requestLimit - (Len(requestsInFlight) - 1) > 0)
                     => /\ Len(dispatched') > Len(dispatched)
                        /\ Head(requestQueue) \in Range(requestsInFlight')

C9_SlotRelease == []C9_ReleasedNotInFlight /\ [][C9_FinallyReleases]_vars

\* A request that failed was released while a request dispatched before it
\* is still in flight, and the pump that followed dispatched a queued one.
C9_Witness ==
    \E r, q \in Requests :
        /\ Released(r) /\ outcome[r] = "err"
        /\ pc[q] = "inflight" /\ uuid[q] < uuid[r]
        /\ \E n \in Requests : pc[n] = "inflight" /\ uuid[n] > uuid[r]

\* C10 - Limit change: with limit 1 and three requests enqueued, none
\* settled, exactly one is in flight; raising the limit dispatches nothing by
\* itself; afterwards the in-flight count never exceeds the limit in force.
C10_OneInFlight ==
    (/\ requestLimit = 1
     /\ nReq = 3
     /\ \A r \in 1..3 : pc[r] \in {"queued", "inflight"})
        => /\ Len(requestsInFlight) = 1
           /\ Len(requestQueue) = 2

C10_RaiseDispatchesNothing ==
    requestLimit' # requestLimit
        => UNCHANGED <<requestQueue, requestsInFlight, dispatched, pc,
                       waitingQueue, notified>>

C10_LimitChange ==
    /\ [](C10_OneInFlight /\ Len(requestsInFlight) <= requestLimit)
    /\ [][C10_RaiseDispatchesNothing]_vars

\* After the raise three requests are in flight, none has settled, the
\* first is the one dispatched under limit 1 and a fourth one is queued.
C10_Witness ==
    /\ requestLimit = DEFAULT_NET_REQUEST_LIMIT
    /\ nReq = 4
    /\ requestsInFlight = <<1, 2, 3>>
    /\ requestQueue = <<4>>
    /\ \A r \in Requests : pc[r] \in {"queued", "inflight"}
    /\ notified = <<1>>

\* C11 - Request timeout: a dispatched request with a positive timeout whose
\* upstream never answers is eventually failed with a timeout error and
\* released: removed from the in-flight list by the finally callback, which
\* pumps.
C11_TimesOut ==
    \A r \in Requests :
        (pc[r] = "inflight" /\ rTimeout[r] > 0)
            ~> (/\ Released(r)
                /\ outcome[r] = "timeout"
                /\ failCalls[r] = 1 /\ resolveCalls[r] = 0
                /\ r \notin Range(requestsInFlight))

\* The finally callback of a timed-out request pumps: it leaves no request
\* queued while a slot is free.
C11_PumpRuns ==
    \A r \in Requests :
        (FinallyStep(r) /\ outcome[r] = "timeout")
            => \/ requestQueue' = <<>>
               \/ Len(requestsInFlight') >= requestLimit'

C11_RequestTimeout == C11_TimesOut /\ [][C11_PumpRuns]_vars

\* A request built with timeout 1 was failed by its timeout and released,
\* and the pump that followed dispatched the request queued behind it.
C11_Witness ==
    \E r, q \in Requests :
        /\ rTimeout[r] = 1 /\ Released(r) /\ outcome[r] = "timeout"
        /\ uuid[q] > uuid[r] /\ pc[q] = "inflight"
        /\ requestLimit = 1

\* C12 - Retry exhaustion: a file whose request was made and whose every
\* try failed has been tried perFileRetries times (perFileRetries tries in
\* all, or that many after the first one) when its task fails, and the
\* staging file was removed after every failed try.
C12_RetryExhaustion ==
    \A f \in Files :
        (tpc[f] = "failed" /\ reqOf[f] # 0 /\ is[f] # "ended")
            => /\ pipes[f] \in {args.perFileRetries, args.perFileRetries + 1}
               /\ unlinks[f] = pipes[f]

\* C13 - Skip already-valid file: a manifest entry whose staging path held,
\* before the run, a file with the digest the manifest gives is skipped: no
\* request is made for it, its task is never started, and after a run that
\* succeeded the file is in the final destination.
C13_SkipValidFile ==
    \A f \in stagedValid :
        /\ reqOf[f] = 0
        /\ tpc[f] \in {"none", "returned", "skipped"}
        /\ hpc = "resolved" => final[f] = File(Served)

\* C14 - Staging cleanup: when the handler has settled, whether it resolved
\* or rejected and at whatever step it failed, the staging directory is
\* gone if cleanupTemp is set and is in place if it is not.
C14_StagingCleanup ==
    hpc \in {"resolved", "rejected"} => (tempDir <=> ~args.cleanupTemp)

\* C15 - Fail-fast abort: once the task of a file has given up after its
\* last try, no request is made for a file whose download has not started
\* yet, and the handler does not resolve.
C15_FailFastAbort ==
    /\ lateRequests = {}
    /\ Aborting => hpc # "resolved"

\* C16 - checkFileIntegrity: the call resolves to false when the path is
\* not a file, to true when the digest of the content the file holds
\* equals the hash, and to false when it differs.
C16_CheckFileIntegrity ==
    ciResult # "none"
        => ciResult = IF ~ciFile.exists THEN "false"
                      ELSE IF Digest(ciFile.content) = ciHash THEN "true"
                      ELSE "false"

\* C17 - Logger verbosity: every logger of ALL_LOGGERS has the level Verbose
\* when the verbose flag is set and the level Info when it is not.
C17_LoggerVerbosity ==
    \A l \in Range(allLoggers) : level[l] = LevelFor(verbose)

\* The flag is set; the list holds a logger created with level Info, which
\* setVerbose(true) changed over, and one created with level Verbose.
C17_Witness ==
    /\ verbose
    /\ \E l1, l2 \in Range(allLoggers) :
        /\ levelAtCreation[l1] = LogLevel.Info
        /\ level[l1] = LogLevel.Verbose
        /\ levelAtCreation[l2] = LogLevel.Verbose

\* A pass of pumpQueue runs in this step: makeRequest, the finally callback
\* of a request, or a waitUntilQueueHasSpace call that registers a waiter.
PumpPass ==
    \/ nReq' # nReq
    \/ \E r \in Requests : FinallyStep(r)
    \/ nWait' # nWait /\ wTimeout'[nWait'] # NoTimeout

\* C18 - Pump drains to capacity: when a pass of the pump returns, no slot
\* is free or the request queue is empty, whatever the queue, the limit and
\* the waiting queue were.
C18_PumpDrains ==
    [][PumpPass => \/ requestLimit' - Len(requestsInFlight') <= 0
                   \/ requestQueue' = <<>>]_vars

\* C19 - Eventual dispatch: if the limit is at least 1 from some point on
\* (and every dispatched operation settles), every request in the request
\* queue is eventually dispatched and its promise eventually settles.
C19_EventualDispatch ==
    <>[](requestLimit >= 1)
        => \A r \in Requests : (pc[r] = "queued") ~> (outcome[r] # "none")

\* C20 - Waiter registry holds only live waiters: a waiter leaves the
\* waiting queue when the gate notifies it or when its deadline elapses, so
\* no settled waiter is in the waiting queue (and none can take the
\* notification meant for a later waiter that is still waiting).
C20_OnlyLiveWaiters ==
    \A i \in 1..Len(waitingQueue) : ~settled[waitingQueue[i]]

\* Where a request is: in requestQueue, in requestsInFlight, how many times.
Occurrences(s, r) == Cardinality({i \in 1..Len(s) : s[i] = r})
InQueue(r) == Occurrences(requestQueue, r) >= 1
InFlight(r) == Occurrences(requestsInFlight, r) >= 1

\* C21 - Request lifecycle partition: a request that was made is in exactly
\* one of three places: the request queue (once, with no uuid), the
\* in-flight list (once, with a uuid no other in-flight request has), or in
\* neither, its operation settled and its finally callback run. A request
\* whose promise has settled is not in the queue.
C21_Partition ==
    \A r \in Requests :
        /\ r > nReq => ~InQueue(r) /\ ~InFlight(r) /\ ~Released(r)
        /\ r <= nReq =>
            /\ \/ InQueue(r) /\ ~InFlight(r) /\ ~Released(r)
               \/ ~InQueue(r) /\ InFlight(r) /\ ~Released(r)
               \/ ~InQueue(r) /\ ~InFlight(r) /\ Released(r)
            /\ InQueue(r) => /\ Occurrences(requestQueue, r) = 1
                             /\ uuid[r] = 0
                             /\ outcome[r] = "none"
            /\ InFlight(r) => /\ Occurrences(requestsInFlight, r) = 1
                              /\ uuid[r] # 0
                              /\ \A q \in Requests \ {r} :
                                     InFlight(q) => uuid[q] # uuid[r]
            /\ Released(r) => outcome[r] # "none"

\* A request that left the queue never returns to it, a released request
\* stays released, and a uuid once assigned is kept.
C21_NeverReturns ==
    \A r \in Requests :
        /\ (r <= nReq /\ ~InQueue(r)) => ~(InQueue(r))'
        /\ Released(r) => (Released(r))'
        /\ uuid[r] # 0 => uuid'[r] = uuid[r]

\* A request leaves the in-flight list only in its own finally callback.
C21_RemovedById ==
    \A r \in Requests :
        (InFlight(r) /\ ~(InFlight(r))') => FinallyStep(r)

Failed(r) == outcome[r] \in {"err", "timeout"}

\* C22 - No retry by the gate: a request is dispatched at most once; a
\* request whose operation failed has its promise failed (once, and never
\* resolved), is not in the request queue and is not dispatched again.
C22_AtMostOnce ==
    \A r \in Requests :
        /\ Occurrences(dispatched, r) <= 1
        /\ Failed(r) => /\ failCalls[r] = 1 /\ resolveCalls[r] = 0
                        /\ ~InQueue(r)
                        /\ pc[r] \in {"called", "released"}

C22_NotAgain ==
    \A r \in Requests :
        Failed(r) => /\ ~(InQueue(r))'
                     /\ Occurrences(dispatched', r) = Occurrences(dispatched, r)
                     /\ outcome'[r] = outcome[r]
                     /\ failCalls'[r] = failCalls[r]

C22_NoRetry == []C22_AtMostOnce /\ [][C22_NotAgain]_vars

\* A request failed by a rejection and one failed by its timeout have been
\* released, and requests made after them have been dispatched since.
C22_Witness ==
    \E a, b, c \in Requests :
        /\ Released(a) /\ outcome[a] = "err"
        /\ Released(b) /\ outcome[b] = "timeout"
        /\ uuid[c] > uuid[a] /\ uuid[c] > uuid[b]
        /\ requestLimit = 1

\* The pump dispatches request r in this step.
DispatchStep(r) == pc[r] \in {"unissued", "queued"} /\ pc'[r] = "inflight"

\* C23 - Timeout change scope: a request is dispatched with the timeout in
\* force at its dispatch, whether it was made before or after the last
\* setRequestTimeout call, and a request in flight keeps the timeout it was
\* dispatched with.
C23_TimeoutChangeScope ==
    [][\A r \in Requests :
           /\ DispatchStep(r) => rTimeout'[r] = requestTimeout'
           /\ InFlight(r) => rTimeout'[r] = rTimeout[r]]_vars

\* C24 - Notification is one-per-dispatch and reserves nothing: a pump pass
\* notifies at most one waiter per request it dispatches, taking the waiters
\* from the front of the waiting queue in order; resolving a waiter changes
\* neither the request queue, the in-flight list nor the limit, so the slots
\* taken in a pass are those of the dispatched requests, and the in-flight
\* list stays within the limit after waiters were woken.
C24_OnePerDispatch ==
    LET k == Len(notified') - Len(notified)
        d == Len(dispatched') - Len(dispatched)
        freed == Cardinality({r \in Requests : FinallyStep(r)})
    IN /\ 0 <= k /\ k <= d
       /\ \A i \in 1..k : notified'[Len(notified) + i] = waitingQueue[i]
       /\ Len(requestsInFlight') = Len(requestsInFlight) - freed + d
       /\ Len(requestQueue') = Len(requestQueue) + (nReq' - nReq) - d
       /\ k > 0 => requestLimit' = requestLimit

C24_ResolveReservesNothing ==
    \A w \in Waiters :
        LET h == WaiterResolve(Gate, w)
        IN /\ h.requestQueue = requestQueue
           /\ h.requestsInFlight = requestsInFlight
           /\ h.requestLimit = requestLimit
           /\ h.pc = pc

C24_Notification ==
    /\ [](C24_ResolveReservesNothing /\ Len(requestsInFlight) <= requestLimit)
    /\ [][C24_OnePerDispatch]_vars

\* A pass dispatched one request and woke the first of two waiters; the
\* second still waits, and a request made since is queued behind a full
\* gate.
C24_Witness ==
    /\ notified = <<1>> /\ waitOutcome[1] = "resolved"
    /\ waitingQueue = <<2>> /\ ~settled[2]
    /\ Len(requestsInFlight) = requestLimit
    /\ requestQueue # <<>>
    /\ \E r \in Requests : Released(r)

\* C25 - Capacity at wake-up: at the moment the pump resolves a waiter the
\* remaining capacity is greater than 0. (The i-th notification of a pass
\* follows its i-th dispatch: the in-flight list then holds the requests it
\* held before the pass, less the one released, plus i.)
C25_CapacityAtWakeUp ==
    [][LET freed == Cardinality({r \in Requests : FinallyStep(r)})
       IN \A i \in 1..(Len(notified') - Len(notified)) :
              LET w == notified'[Len(notified) + i]
              IN (waitOutcome'[w] = "resolved" /\ waitOutcome[w] # "resolved")
                     => requestLimit'
                            - (Len(requestsInFlight) - freed + i) > 0]_vars

\* The task of a file has not settled: it awaits the file system, the
\* response of its request or the end of its stream.
TaskInFlight(f) == tpc[f] \in {"checkExisting", "requesting", "piping"}

\* C26 - Batch failure waits for in-flight work: the handler surfaces the
\* failure of the batch, and its finally block removes the staging
\* directory, only when the task of no file is still in flight.
C26_BatchFailureWaits ==
    [][(hpc = "downloading" /\ hpc' = "rejected")
           => \A f \in Files : ~TaskInFlight(f)]_vars

\* The task of file f opens its staging file and makes its request in this
\* step.
OpensStaging(f) == tpc[f] = "checkExisting" /\ tpc'[f] = "requesting"

\* C27 - Wait before download: the task of a file opens its staging write
\* stream and makes its request only when the gate has spare capacity.
\* (Stated for the tasks that start once the request of the manifest has
\* left the in-flight list, which its finally callback sees to before the
\* file system answers the first task.)
C27_WaitBeforeDownload ==
    [][\A f \in Files :
           (OpensStaging(f) /\ Released(reqOf[0]))
               => RemainingRequestCapacity(Gate) > 0]_vars

\* The task of a file has returned without an error: the file was skipped
\* (serveronly, found in the output directory, 404) or downloaded.
TaskSucceeded(f) == tpc[f] \in {"returned", "skipped", "done"}

\* C28 - Promotion after settlement: staged files are copied to the final
\* destination only once the task of every file has returned without an
\* error, the downloaded files being then in the staging directory; when the
\* task of any file failed, nothing is copied.
C28_CopyAfterSettlement ==
    final' # final
        => /\ \A f \in Files : TaskSucceeded(f)
           /\ \A f \in Files :
                  tpc[f] = "done" => /\ staging[f] = File(Served)
                                     /\ final'[f] = staging[f]

C28_NothingCopiedOnFailure ==
    (\E f \in Files : tpc[f] = "failed") => \A f \in Files : final[f] = NoFile

C28_Promotion ==
    /\ []C28_NothingCopiedOnFailure
    /\ [][C28_CopyAfterSettlement]_vars

\* A run that resolved: one file was downloaded, the other was skipped, and
\* both are in the final destination.
C28_Witness ==
    /\ hpc = "resolved"
    /\ \E f, g \in Files :
        /\ tpc[f] = "done" /\ final[f] = File(Served)
        /\ tpc[g] = "returned" /\ final[g].exists

\* process classifies the files of the manifest in this step.
ClassifyStep == hpc = "manifest" /\ hpc' = "downloading"

\* C29 - Pre-check classification: a file that is not serveronly is marked
\* for download exactly when no staged copy exists, or one exists, the
\* integrity check is on and its digest differs from file.sha1; a serveronly
\* file is never marked for download, and the classification throws nothing.
C29_PreCheck ==
    [][ClassifyStep =>
           \A f \in Files :
               /\ tpc'[f] \in {"returned", "skipped", "download"}
               /\ tpc'[f] # "returned" =>
                      (tpc'[f] = "download"
                          <=> \/ ~staging[f].exists
                              \/ /\ args.checkIntegrity
                                 /\ Digest(staging[f].content) # Sha1)]_vars

\* C30 - Proxied download ordering: a getFlameFile call makes the metadata
\* request first and the request of the file only once the metadata request
\* has resolved; when the metadata request fails the call makes no second
\* request and throws; when the file request fails the call throws; both
\* requests are made through makeRequest and count against the limit.
C30_ProxiedOrdering ==
    /\ Len(requestsInFlight) <= requestLimit
    /\ \A c \in Calls :
        /\ fpc[c] # "idle" <=> metaReq[c] # 0
        /\ metaReq[c] # 0 => /\ metaReq[c] <= nReq
                             /\ pc[metaReq[c]] \in {"inflight", "called"}
                                    <=> InFlight(metaReq[c])
        /\ fileReq[c] # 0 => /\ metaReq[c] # 0
                             /\ metaReq[c] < fileReq[c]
                             /\ fileReq[c] <= nReq
                             /\ outcome[metaReq[c]] = "ok"
                             /\ pc[fileReq[c]] \in {"inflight", "called"}
                                    <=> InFlight(fileReq[c])
        /\ (metaReq[c] # 0 /\ Failed(metaReq[c]))
               => fileReq[c] = 0 /\ fpc[c] \in {"metadata", "rejected"}
        /\ fpc[c] = "resolved" => outcome[fileReq[c]] = "ok"
        /\ fpc[c] = "rejected" => \/ Failed(metaReq[c])
                                  \/ fileReq[c] # 0 /\ Failed(fileReq[c])

\* One call threw on its metadata request and made no second request;
\* another got its metadata, and its file request waits in the queue behind
\* a full gate.
C30_Witness ==
    \E c, d \in Calls :
        /\ fpc[c] = "rejected" /\ fileReq[c] = 0
        /\ fpc[d] = "file" /\ InQueue(fileReq[d])
        /\ Len(requestsInFlight) = requestLimit

====
